---- MODULE Spec2Model ----
(***************************************************************************)
(* Team configuration store and invite dispatch of smk96-teaminvite2       *)
(* (team.ts): the Deno KV team store, the configuration resolver           *)
(* getAllConfigs, the outbound call sendInvitesApi and the oak route       *)
(* handlers.  Every handler is cut at its awaits: one action per           *)
(* continuation, so concurrently in-flight requests interleave exactly     *)
(* where the single-threaded runtime lets them.                            *)
(***************************************************************************)
EXTENDS Integers, Sequences, FiniteSets, TLC

(***************************************************************************)
(* Bounds of the model.                                                    *)
(***************************************************************************)
\* number of ids crypto.randomUUID() can hand out in one behaviour
MaxUuid == 2

(***************************************************************************)
(* Values.                                                                 *)
(***************************************************************************)
\* JavaScript undefined: a field that is missing from a body, an unset
\* environment variable
Absent == "<undefined>"

\* !v for a string-or-undefined value
Falsy(v) == v = Absent \/ v = ""

\* a || b
OrElse(a, b) == IF Falsy(a) THEN b ELSE a

\* the values crypto.randomUUID() draws from
UuidPool == <<"uuid-1", "uuid-2", "uuid-3", "uuid-4">>

Uuids == {UuidPool[i] : i \in 1..MaxUuid}

\* the bodies of POST /api/teams: two complete profiles, the same with the
\* name missing or empty, and every way of leaving a credential out
TeamBody(token, accountId, name) ==
    [token |-> token, accountId |-> accountId, name |-> name]

TeamBodies ==
    {TeamBody("t1", "a1", "Alpha"), TeamBody("t2", "a2", Absent),
     TeamBody("t2", "a2", ""),
     TeamBody(Absent, "a1", "Alpha"), TeamBody("", "a1", "Alpha"),
     TeamBody("t1", Absent, "Alpha"), TeamBody("t1", "", "Alpha"),
     TeamBody(Absent, Absent, Absent)}

\* the environment the process was started with: a variable is unset, set
\* to the empty string, or set
EnvTokens == {Absent, "env-token"}

EnvAccountIds == {"", "env-account"}

\* emails of an invite body: missing, a string (not a list), [], ["x@y.com"]
EmailsAbsent == [type |-> "undefined", items |-> <<>>]

EmailsString == [type |-> "string", items |-> <<"x@y.com">>]

EmailsEmpty == [type |-> "array", items |-> <<>>]

EmailsOne == [type |-> "array", items |-> <<"x@y.com">>]

EmailsValues == {EmailsAbsent, EmailsString, EmailsEmpty, EmailsOne}

\* teamId of an invite body
TeamIds == Uuids \cup {Absent, "default"}

\* the requests in flight at the same time: request 1 is to any route,
\* request 2 to a route that writes the store; two requests to reading routes
\* share nothing but the handle
Requests == {1, 2}

AnyRoute == {1}

(***************************************************************************)
(* Team (interface Team) and the synthetic environment record.             *)
(***************************************************************************)
Team(token, accountId, name, id) ==
    [token |-> token, accountId |-> accountId, name |-> name, id |-> id]

NoTeam == Team(Absent, Absent, Absent, Absent)

(***************************************************************************)
(* The KV store: entries under the prefix ["teams"], keyed by the id.      *)
(* A store is a function from the keys present to the stored values.       *)
(***************************************************************************)
EmptyKv == [k \in {} |-> NoTeam]

\* kv.set gone wrong: an entry that exists is not replaced
KvSet_KeepExisting(store, key, value) ==
    [k \in DOMAIN store \cup {key} |->
        IF k \in DOMAIN store THEN store[k] ELSE value]

\* kv.set(["teams", key], value)
KvSet(store, key, value) ==
    [k \in DOMAIN store \cup {key} |-> IF k = key THEN value ELSE store[k]]

\* kv.delete(["teams", key])
KvDelete(store, key) ==
    [k \in DOMAIN store \ {key} |-> store[k]]

\* position of a key in the lexicographic key order kv.list iterates in
KeyRank(key) == CHOOSE i \in 1..Len(UuidPool) : UuidPool[i] = key

RECURSIVE KvList(_, _)
\* kv.list({prefix: ["teams"]}): the values in key order
KvList(store, keys) ==
    IF keys = {} THEN <<>>
    ELSE LET k == CHOOSE a \in keys : \A b \in keys : KeyRank(a) <= KeyRank(b)
         IN <<store[k]>> \o KvList(store, keys \ {k})

\* (a.name || "").localeCompare(b.name || "") over the names of the model:
\* the rank of a name in the collation order
NameRank(name) ==
    LET n == OrElse(name, "")
    IN IF n = "" THEN 0
       ELSE IF n = "Alpha" THEN 1
       ELSE IF n = "Beta" THEN 2
       ELSE 3  \* "Team", "Default Env/Global"

\* the comparator gone wrong: the operands are swapped
LocaleCompare_Descending(a, b) == NameRank(b.name) - NameRank(a.name)

LocaleCompare(a, b) == NameRank(a.name) - NameRank(b.name)

RECURSIVE SortInsert(_, _)
\* insert t after every element that does not compare greater (stable)
SortInsert(sorted, t) ==
    IF sorted = <<>> THEN <<t>>
    ELSE IF LocaleCompare(Head(sorted), t) <= 0
         THEN <<Head(sorted)>> \o SortInsert(Tail(sorted), t)
         ELSE <<t>> \o sorted

RECURSIVE SortByName(_)
\* Array.prototype.sort with the name comparator: a stable sort
SortByName(s) ==
    IF s = <<>> THEN <<>>
    ELSE SortInsert(SortByName(SubSeq(s, 1, Len(s) - 1)), s[Len(s)])

\* loadTeams()
loadTeams(store) == SortByName(KvList(store, DOMAIN store))

\* saveTeam gone wrong: the id it assigns is the same every time
saveTeamRecord_FixedId(team, uuid) ==
    IF Falsy(team.id) THEN [team EXCEPT !.id = UuidPool[1]] ELSE team

\* saveTeam(team) with uuid the value crypto.randomUUID() would return:
\* the team as mutated by the call
saveTeamRecord(team, uuid) ==
    IF Falsy(team.id) THEN [team EXCEPT !.id = uuid] ELSE team

\* saveTeam(team): the store after kv.set(["teams", team.id], team)
saveTeam(store, team, uuid) ==
    LET t == saveTeamRecord(team, uuid) IN KvSet(store, t.id, t)

\* deleteTeam gone wrong: the entry is left where it is
deleteTeam_KeepsEntry(store, id) == store

\* deleteTeam(id)
deleteTeam(store, id) == KvDelete(store, id)

\* the record getAllConfigs builds from the environment
FallbackTeam(environment) ==
    Team(environment.CHATGPT_TOKEN, environment.CHATGPT_ACCOUNT_ID,
         "Default Env/Global", "default")

\* getAllConfigs gone wrong: the environment is consulted first
getAllConfigs_EnvFirst(teams, environment) ==
    IF /\ ~Falsy(environment.CHATGPT_TOKEN)
       /\ ~Falsy(environment.CHATGPT_ACCOUNT_ID)
    THEN <<FallbackTeam(environment)>>
    ELSE teams

\* getAllConfigs gone wrong: one environment value is enough (|| for &&)
getAllConfigs_EitherEnv(teams, environment) ==
    IF Len(teams) = 0
       /\ (~Falsy(environment.CHATGPT_TOKEN)
           \/ ~Falsy(environment.CHATGPT_ACCOUNT_ID))
    THEN <<FallbackTeam(environment)>>
    ELSE teams

\* getAllConfigs() given the result of loadTeams()
getAllConfigs(teams, environment) ==
    IF Len(teams) = 0
       /\ ~Falsy(environment.CHATGPT_TOKEN)
       /\ ~Falsy(environment.CHATGPT_ACCOUNT_ID)
    THEN <<FallbackTeam(environment)>>
    ELSE teams

\* selection gone wrong: only an exact match selects
SelectConfig_StrictMatch(configs, teamId) ==
    LET hits == {i \in 1..Len(configs) : configs[i].id = teamId}
    IN IF hits # {}
       THEN configs[CHOOSE i \in hits : \A j \in hits : i <= j]
       ELSE NoTeam

\* selection gone wrong: without a match the first configuration is taken
SelectConfig_FirstByDefault(configs, teamId) ==
    LET hits == {i \in 1..Len(configs) : configs[i].id = teamId}
    IN IF hits # {}
       THEN configs[CHOOSE i \in hits : \A j \in hits : i <= j]
       ELSE IF Len(configs) >= 1 THEN configs[1] ELSE NoTeam

\* selection gone wrong: a match selects the first configuration
SelectConfig_FirstOnHit(configs, teamId) ==
    LET hits == {i \in 1..Len(configs) : configs[i].id = teamId}
    IN IF hits # {}
       THEN configs[1]
       ELSE IF Len(configs) = 1 THEN configs[1] ELSE NoTeam

\* configs.find(t => t.id === teamId) || (configs.length === 1 ? configs[0] : null)
SelectConfig(configs, teamId) ==
    LET hits == {i \in 1..Len(configs) : configs[i].id = teamId}
    IN IF hits # {}
       THEN configs[CHOOSE i \in hits : \A j \in hits : i <= j]
       ELSE IF Len(configs) = 1 THEN configs[1] ELSE NoTeam


(***************************************************************************)
(* sendInvitesApi: one fetch, then the reading of its body.                *)
(***************************************************************************)
\* what the network can do to the one fetch of a call
Outcome(fetchThrows, status, readThrows, payload, message) ==
    [fetchThrows |-> fetchThrows, status |-> status, readThrows |-> readThrows,
     payload |-> payload, message |-> message]

FetchOutcomes ==
    {Outcome(TRUE, 0, FALSE, "", "error sending request"),
     Outcome(FALSE, 200, FALSE, "invites-accepted", ""),
     Outcome(FALSE, 200, TRUE, "", "Unexpected end of JSON input"),
     Outcome(FALSE, 403, FALSE, "forbidden", ""),
     Outcome(FALSE, 429, FALSE, "slow down", ""),
     Outcome(FALSE, 403, TRUE, "", "error reading a body from connection")}

\* response.ok
ResponseOk(status) == status >= 200 /\ status <= 299

\* sendInvitesApi gone wrong: the catch block returns a failure instead of
\* re-throwing
sendInvitesApi_Swallow(o) ==
    IF o.fetchThrows \/ o.readThrows
    THEN [threw |-> FALSE,
          value |-> [success |-> FALSE, statusCode |-> 0, error |-> o.message]]
    ELSE IF ~ResponseOk(o.status)
         THEN [threw |-> FALSE,
               value |-> [success |-> FALSE, statusCode |-> o.status,
                          error |-> o.payload]]
         ELSE [threw |-> FALSE,
               value |-> [success |-> TRUE, data |-> o.payload]]

\* sendInvitesApi(...) once its fetch has settled with outcome o: either the
\* value it returns or the error it re-throws
sendInvitesApi(o) ==
    IF o.fetchThrows
    THEN [threw |-> TRUE, message |-> o.message]
    ELSE IF ~ResponseOk(o.status)
         THEN IF o.readThrows
              THEN [threw |-> TRUE, message |-> o.message]
              ELSE [threw |-> FALSE,
                    value |-> [success |-> FALSE, statusCode |-> o.status,
                               error |-> o.payload]]
         ELSE IF o.readThrows
              THEN [threw |-> TRUE, message |-> o.message]
              ELSE [threw |-> FALSE,
                    value |-> [success |-> TRUE, data |-> o.payload]]

\* the status gone wrong: every failure is a 500
InviteStatus_Always500(result) ==
    IF result.success THEN 200 ELSE 500

\* result.success ? 200 : (result.statusCode || 500)
InviteStatus(result) ==
    IF result.success THEN 200
    ELSE IF result.statusCode = 0 THEN 500 ELSE result.statusCode

\* the try/catch of the invite route around the awaited sendInvitesApi
InviteResponse(config, settled) ==
    IF settled.threw
    THEN [status |-> 500,
          body |-> [success |-> FALSE, team |-> config.name,
                    error |-> settled.message]]
    ELSE [status |-> InviteStatus(settled.value),
          body |-> [success |-> settled.value.success, team |-> config.name,
                    details |-> settled.value]]

(***************************************************************************)
(* State.                                                                  *)
(***************************************************************************)
VARIABLES
    kv,       \* the entries of the KV database under ["teams"]
    _kv,      \* the module-level handle: 0 is null, n the n-th handle opened
              \* (all handles are handles of the one database)
    opens,    \* how many times Deno.openKv() has been called
    env,      \* Deno.env: CHATGPT_TOKEN and CHATGPT_ACCOUNT_ID
    issued,   \* the ids saveTeam has assigned so far
    req       \* the requests in flight: locals and position of each handler

vars == <<kv, _kv, opens, env, issued, req>>

NoBody ==
    [emails |-> EmailsAbsent, teamId |-> Absent, token |-> Absent,
     accountId |-> Absent, name |-> Absent, id |-> Absent]

\* ctx.response before the handler touches it
NoResponse == [status |-> 404, body |-> [empty |-> TRUE]]

\* no fetch has settled
NoOutcome == Outcome(FALSE, 0, FALSE, "", "")

\* a request: the route (kind), the position of its handler (pc), its body
\* and path parameter, the handle getKv gave it (h), the handler's locals
\* teams, configs, config and newTeam (team), the outbound calls it has made,
\* how its fetch settled, its response and the number of answers it has sent
Idle ==
    [kind |-> "none", pc |-> "idle", body |-> NoBody, h |-> 0,
     teams |-> <<>>, configs |-> <<>>, config |-> NoTeam, team |-> NoTeam,
     calls |-> <<>>, outcome |-> NoOutcome,
     response |-> NoResponse, responses |-> 0]

Init ==
    /\ kv = EmptyKv
    /\ _kv = 0
    /\ opens = 0
    /\ env \in [CHATGPT_TOKEN : EnvTokens, CHATGPT_ACCOUNT_ID : EnvAccountIds]
    /\ issued = {}
    /\ req = [r \in Requests |-> Idle]

\* the handler of r writes its response and returns
Respond(r, base, status, body) ==
    req' = [req EXCEPT ![r] =
              [base EXCEPT !.pc = "done",
                           !.response = [status |-> status, body |-> body],
                           !.responses = @ + 1]]

\* getKv() up to its await: the check of _kv and, when it is null, the call
\* of Deno.openKv(); next is where the caller goes on once it has the handle
EnterGetKv(r, base, next) ==
    IF _kv = 0
    THEN /\ opens' = opens + 1
         /\ req' = [req EXCEPT ![r] = [base EXCEPT !.pc = "openKv"]]
    ELSE /\ opens' = opens
         /\ req' = [req EXCEPT ![r] = [base EXCEPT !.pc = next, !.h = _kv]]

\* Deno.openKv() calls that have not resolved yet
OpensPending == Cardinality({q \in Requests : req[q].pc = "openKv"})

\* the store operation a handler performs once getKv() has returned
StoreOp(kind) ==
    IF kind = "addTeam" THEN "set"
    ELSE IF kind = "deleteTeam" THEN "delete"
    ELSE "list"

\* getKv() after its await: _kv = await Deno.openKv(); return _kv.  Every
\* call of Deno.openKv() resolves to a handle of its own, numbered here in
\* the order the calls resolve
OpenKvDone(r) ==
    /\ req[r].pc = "openKv"
    /\ _kv' = opens - OpensPending + 1
    /\ req' = [req EXCEPT ![r].pc = StoreOp(req[r].kind), ![r].h = _kv']
    /\ UNCHANGED <<kv, opens, env, issued>>

(***************************************************************************)
(* POST /api/invite                                                        *)
(***************************************************************************)
\* the validation gone wrong: the length of the list is not looked at
EmailsInvalid_NoLengthCheck(emails) ==
    \/ emails.type = "undefined"
    \/ emails.type # "array"

\* !emails || !Array.isArray(emails) || emails.length === 0
EmailsInvalid(emails) ==
    \/ emails.type = "undefined"
    \/ emails.type # "array"
    \/ Len(emails.items) = 0

\* the handler up to its first store access: the body is read, emails is
\* validated, getAllConfigs -> loadTeams -> getKv is entered
InviteStart(r) ==
    /\ r \in AnyRoute
    /\ req[r].pc = "idle"
    /\ \E emails \in EmailsValues, teamId \in TeamIds :
         LET base == [Idle EXCEPT !.kind = "invite",
                                  !.body = [NoBody EXCEPT !.emails = emails,
                                                          !.teamId = teamId]]
         IN IF EmailsInvalid(emails)
            THEN /\ Respond(r, base, 400, [error |-> "Emails array is required"])
                 /\ opens' = opens
            ELSE EnterGetKv(r, base, "list")
    /\ UNCHANGED <<kv, _kv, env, issued>>

\* kv.list delivers the entries; loadTeams sorts them and getAllConfigs
\* decides on the environment fallback
InviteList(r) ==
    /\ req[r].pc = "list"
    /\ req[r].kind = "invite"
    /\ LET teams == loadTeams(kv)
       IN req' = [req EXCEPT ![r].pc = "resolved",
                             ![r].teams = teams,
                             ![r].configs = getAllConfigs(teams, env)]
    /\ UNCHANGED <<kv, _kv, opens, env, issued>>

\* the route gone wrong: the store is read again when the team is selected
InviteResolve_Reread(r) ==
    /\ req[r].pc = "resolved"
    /\ LET configs == getAllConfigs(loadTeams(kv), env)
           config == SelectConfig(configs, req[r].body.teamId)
       IN IF Len(configs) = 0
          THEN Respond(r, req[r], 500,
                       [error |-> "No team configuration available"])
          ELSE IF config = NoTeam
          THEN Respond(r, req[r], 400,
                       [error |-> "Invalid or missing team selection"])
          ELSE req' = [req EXCEPT
                         ![r].pc = "fetch",
                         ![r].config = config,
                         ![r].calls = Append(@,
                            [token |-> config.token,
                             accountId |-> config.accountId,
                             emails |-> req[r].body.emails.items])]
    /\ UNCHANGED <<kv, _kv, opens, env, issued>>

\* from the return of getAllConfigs to the fetch inside sendInvitesApi
InviteResolve(r) ==
    /\ req[r].pc = "resolved"
    /\ LET configs == req[r].configs
           config == SelectConfig(configs, req[r].body.teamId)
       IN IF Len(configs) = 0
          THEN Respond(r, req[r], 500,
                       [error |-> "No team configuration available"])
          ELSE IF config = NoTeam
          THEN Respond(r, req[r], 400,
                       [error |-> "Invalid or missing team selection"])
          ELSE req' = [req EXCEPT
                         ![r].pc = "fetch",
                         ![r].config = config,
                         ![r].calls = Append(@,
                            [token |-> config.token,
                             accountId |-> config.accountId,
                             emails |-> req[r].body.emails.items])]
    /\ UNCHANGED <<kv, _kv, opens, env, issued>>

\* the route gone wrong: a call that failed is made once more before the
\* route answers
InviteSettle_Retry(r) ==
    /\ req[r].pc = "fetch"
    /\ \E o \in FetchOutcomes :
         LET settled == sendInvitesApi(o)
             failed == IF settled.threw THEN TRUE ELSE ~settled.value.success
             answer == InviteResponse(req[r].config, settled)
         IN IF failed /\ Len(req[r].calls) = 1
            THEN req' = [req EXCEPT ![r].calls = Append(@, @[1])]
            ELSE Respond(r, [req[r] EXCEPT !.teams = <<>>, !.configs = <<>>,
                                           !.outcome = o],
                         answer.status, answer.body)
    /\ UNCHANGED <<kv, _kv, opens, env, issued>>

\* the fetch settles; sendInvitesApi returns or throws and the route answers
\* (configs is not read again: the model forgets it)
InviteSettle(r) ==
    /\ req[r].pc = "fetch"
    /\ \E o \in FetchOutcomes :
         LET answer == InviteResponse(req[r].config, sendInvitesApi(o))
         IN Respond(r, [req[r] EXCEPT !.teams = <<>>, !.configs = <<>>,
                                      !.outcome = o],
                    answer.status, answer.body)
    /\ UNCHANGED <<kv, _kv, opens, env, issued>>

(***************************************************************************)
(* GET /api/teams, POST /api/teams, DELETE /api/teams/:id                  *)
(***************************************************************************)
TeamsStart(r) ==
    /\ r \in AnyRoute
    /\ req[r].pc = "idle"
    /\ EnterGetKv(r, [Idle EXCEPT !.kind = "getTeams"], "list")
    /\ UNCHANGED <<kv, _kv, env, issued>>

TeamsList(r) ==
    /\ req[r].pc = "list"
    /\ req[r].kind = "getTeams"
    /\ LET teams == loadTeams(kv)
       IN Respond(r, [req[r] EXCEPT !.teams = teams], 200, teams)
    /\ UNCHANGED <<kv, _kv, opens, env, issued>>

\* the validation gone wrong: only the token is looked at
TeamBodyInvalid_TokenOnly(token, accountId) == Falsy(token)

\* !token || !accountId
TeamBodyInvalid(token, accountId) == Falsy(token) \/ Falsy(accountId)

\* saveTeam calls still to come from the requests in flight
PendingSaves == Cardinality({q \in Requests : req[q].kind = "addTeam"
                                              /\ req[q].pc \in {"openKv", "set"}})

\* the id field of the body of POST /api/teams, which the route does not
\* read: the body with the empty name comes with the id of a team, the
\* other bodies come without one
BodyId(b) == IF b.name = "" THEN UuidPool[1] ELSE Absent

\* newTeam gone wrong: the name is taken as it comes
NewTeam_NoDefaultName(body) ==
    Team(body.token, body.accountId, body.name, Absent)

\* newTeam gone wrong: the id of the body is taken over
NewTeam_KeepsId(body) ==
    Team(body.token, body.accountId, OrElse(body.name, "Team"), body.id)

\* const newTeam: Team = { token, accountId, name: name || "Team" }
NewTeam(body) ==
    Team(body.token, body.accountId, OrElse(body.name, "Team"), Absent)

\* the handler up to its first store access: the body is read, token and
\* accountId are validated, newTeam is built, saveTeam -> getKv is entered
\* (a body that fails the validation never reaches the store: request 1
\* sends those)
AddTeamStart(r) ==
    /\ req[r].pc = "idle"
    /\ \E b \in TeamBodies :
         LET body == [NoBody EXCEPT !.token = b.token,
                                    !.accountId = b.accountId,
                                    !.name = b.name,
                                    !.id = BodyId(b)]
             base == [Idle EXCEPT !.kind = "addTeam", !.body = body]
         IN IF TeamBodyInvalid(body.token, body.accountId)
            THEN /\ r \in AnyRoute
                 /\ Respond(r, base, 400,
                            [error |-> "Token and Account ID are required"])
                 /\ opens' = opens
            ELSE /\ Cardinality(issued) + PendingSaves < MaxUuid
                 /\ EnterGetKv(r, [base EXCEPT !.team = NewTeam(body)], "set")
    /\ UNCHANGED <<kv, _kv, env, issued>>

\* the values crypto.randomUUID() can return: version-4 UUIDs are taken to
\* be collision-free, so none that was returned before
RandomUuids == Uuids \ issued

\* saveTeam once it has the handle, and the 201 answer
AddTeamSet(r) ==
    /\ req[r].pc = "set"
    /\ \E uuid \in RandomUuids :
         LET team == saveTeamRecord(req[r].team, uuid)
         IN /\ kv' = saveTeam(kv, req[r].team, uuid)
            /\ issued' = IF Falsy(req[r].team.id) THEN issued \cup {team.id}
                         ELSE issued
            /\ Respond(r, [req[r] EXCEPT !.team = team], 201,
                       [success |-> TRUE, team |-> team])
    /\ UNCHANGED <<_kv, opens, env>>

\* ctx.params.id: a non-empty path segment
ParamIds == Uuids

DeleteTeamStart(r) ==
    /\ req[r].pc = "idle"
    /\ \E id \in ParamIds :
         LET base == [Idle EXCEPT !.kind = "deleteTeam",
                                  !.body = [NoBody EXCEPT !.id = id]]
         IN IF Falsy(id)
            THEN /\ Respond(r, base, 400, NoResponse.body)
                 /\ opens' = opens
            ELSE EnterGetKv(r, base, "delete")
    /\ UNCHANGED <<kv, _kv, env, issued>>

DeleteTeamDelete(r) ==
    /\ req[r].pc = "delete"
    /\ kv' = deleteTeam(kv, req[r].body.id)
    /\ Respond(r, req[r], 200, [success |-> TRUE])
    /\ UNCHANGED <<_kv, opens, env, issued>>

(***************************************************************************)
(* GET /api/config, GET /health                                            *)
(***************************************************************************)
ConfigStart(r) ==
    /\ r \in AnyRoute
    /\ req[r].pc = "idle"
    /\ EnterGetKv(r, [Idle EXCEPT !.kind = "getConfig"], "list")
    /\ UNCHANGED <<kv, _kv, env, issued>>

\* the choice gone wrong: the last configuration is reported
FirstConfig_Last(configs) ==
    IF Len(configs) = 0 THEN NoTeam ELSE configs[Len(configs)]

\* configs[0] || {}
FirstConfig(configs) == IF Len(configs) = 0 THEN NoTeam ELSE configs[1]

ConfigList(r) ==
    /\ req[r].pc = "list"
    /\ req[r].kind = "getConfig"
    /\ LET teams == loadTeams(kv)
           configs == getAllConfigs(teams, env)
           config == FirstConfig(configs)
       IN Respond(r, [req[r] EXCEPT !.teams = teams, !.configs = configs,
                                    !.config = config],
                  200,
                  [token |-> config.token, accountId |-> config.accountId,
                   hasConfig |-> ~Falsy(config.token)])
    /\ UNCHANGED <<kv, _kv, opens, env, issued>>

HealthStart(r) ==
    /\ r \in AnyRoute
    /\ req[r].pc = "idle"
    /\ EnterGetKv(r, [Idle EXCEPT !.kind = "health"], "list")
    /\ UNCHANGED <<kv, _kv, env, issued>>

HealthList(r) ==
    /\ req[r].pc = "list"
    /\ req[r].kind = "health"
    /\ LET teams == loadTeams(kv)
           configs == getAllConfigs(teams, env)
       IN Respond(r, [req[r] EXCEPT !.teams = teams, !.configs = configs],
                  200, [status |-> "ok", teamsCount |-> Len(configs)])
    /\ UNCHANGED <<kv, _kv, opens, env, issued>>

\* the response has been sent: the request is over
Finish(r) ==
    /\ req[r].pc = "done"
    /\ req' = [req EXCEPT ![r] = Idle]
    /\ UNCHANGED <<kv, _kv, opens, env, issued>>

Next ==
    \E r \in Requests :
        \/ InviteStart(r)
        \/ InviteList(r)
        \/ InviteResolve(r)
        \/ InviteSettle(r)
        \/ TeamsStart(r)
        \/ TeamsList(r)
        \/ AddTeamStart(r)
        \/ AddTeamSet(r)
        \/ DeleteTeamStart(r)
        \/ DeleteTeamDelete(r)
        \/ ConfigStart(r)
        \/ ConfigList(r)
        \/ HealthStart(r)
        \/ HealthList(r)
        \/ OpenKvDone(r)
        \/ Finish(r)

Spec == Init /\ [][Next]_vars

(***************************************************************************)
(* The store helpers on their own: loadTeams, saveTeam and deleteTeam       *)
(* called one at a time with any Team the interface admits (name and id are *)
(* optional), against the database as the earlier calls left it.  The call  *)
(* and what it returned are kept in req[1].                                 *)
(***************************************************************************)
\* the names a Team can come with: none, the empty one, two that differ
RecordNames == {Absent, "", "Alpha", "Team"}

\* the Team arguments of saveTeam, before their id
TeamRecords ==
    {Team("t1", "a1", n, Absent) : n \in RecordNames}
    \cup {Team("t2", "a2", n, Absent) : n \in RecordNames}

\* getKv() run from its call to its return with nothing else in flight
GetKvAlone ==
    /\ _kv' = IF _kv = 0 THEN opens + 1 ELSE _kv
    /\ opens' = IF _kv = 0 THEN opens + 1 ELSE opens

\* a helper has been called with a Team (team) and has returned (teams)
Called(helper, team, result, teams) ==
    [Idle EXCEPT !.kind = helper, !.pc = "done",
                 !.body = [NoBody EXCEPT !.token = team.token,
                                         !.accountId = team.accountId,
                                         !.name = team.name,
                                         !.id = team.id],
                 !.team = result, !.teams = teams]

\* loadTeams()
CallLoadTeams ==
    /\ GetKvAlone
    /\ req' = [req EXCEPT ![1] = Called("loadTeams", NoTeam, NoTeam,
                                        loadTeams(kv))]
    /\ UNCHANGED <<kv, env, issued>>

\* saveTeam(team) for a team that comes without id
CallSaveTeamNew ==
    /\ GetKvAlone
    /\ \E team \in TeamRecords, uuid \in RandomUuids :
          /\ kv' = saveTeam(kv, team, uuid)
          /\ issued' = issued \cup {saveTeamRecord(team, uuid).id}
          /\ req' = [req EXCEPT ![1] = Called("saveTeam", team,
                                              saveTeamRecord(team, uuid), <<>>)]
    /\ UNCHANGED env

\* saveTeam(team) for a team that comes with an id the store has handed out
CallSaveTeamAt ==
    /\ GetKvAlone
    /\ \E t \in TeamRecords, id \in issued, uuid \in Uuids :
          LET team == [t EXCEPT !.id = id]
          IN /\ kv' = saveTeam(kv, team, uuid)
             /\ req' = [req EXCEPT ![1] = Called("saveTeam", team,
                                                 saveTeamRecord(team, uuid), <<>>)]
    /\ UNCHANGED <<env, issued>>

\* deleteTeam(id)
CallDeleteTeam ==
    /\ GetKvAlone
    /\ \E id \in Uuids :
          /\ kv' = deleteTeam(kv, id)
          /\ req' = [req EXCEPT ![1] = Called("deleteTeam",
                                              [NoTeam EXCEPT !.id = id],
                                              NoTeam, <<>>)]
    /\ UNCHANGED <<env, issued>>

StoreNext ==
    \/ CallLoadTeams
    \/ CallSaveTeamNew
    \/ CallSaveTeamAt
    \/ CallDeleteTeam

SpecStore == Init /\ [][StoreNext]_vars

(***************************************************************************)
(* Properties.                                                             *)
(***************************************************************************)
\* both environment values are set to something
EnvPresent ==
    /\ env.CHATGPT_TOKEN \notin {Absent, ""}
    /\ env.CHATGPT_ACCOUNT_ID \notin {Absent, ""}

\* the values stored in a store
Stored(store) == {store[k] : k \in DOMAIN store}

\* the elements of a sequence
Elements(seq) == {seq[i] : i \in 1..Len(seq)}

\* the outbound call authorised by a record, as the invite of r sends it
CallWith(r, record) ==
    [token |-> record.token, accountId |-> record.accountId,
     emails |-> req[r].body.emails.items]

\* r is an invite whose emails field is a non-empty list
InviteWithEmails(r) ==
    /\ req[r].kind = "invite"
    /\ req[r].body.emails.type = "array"
    /\ req[r].body.emails.items # <<>>

\* r is an invite that getAllConfigs has returned to and that has gone on to
\* answer or to call out, and has not yet let go of configs
Resolved(r) ==
    /\ InviteWithEmails(r)
    /\ \/ req[r].pc = "fetch"
       \/ req[r].pc = "done" /\ req[r].calls = <<>>

\* r is an invite whose outbound call has settled and that has answered
Settled(r) ==
    /\ req[r].kind = "invite"
    /\ req[r].pc = "done"
    /\ req[r].calls # <<>>

\* r takes the step in which kv.list delivers and getAllConfigs returns
ResolvesNow(r) ==
    /\ req[r].kind \in {"invite", "getConfig", "health"}
    /\ req[r].pc = "list"
    /\ req'[r].pc # "list"

\* C1 (fallback exclusivity): whenever getAllConfigs runs against a store
\* that holds at least one record, the configuration set it returns (for
\* POST /api/invite, GET /api/config and GET /health) consists of stored
\* records only, all of them, and holds no record with id "default",
\* whatever the environment is.
C1_FallbackExclusivity ==
    [][\A r \in Requests :
          (ResolvesNow(r) /\ DOMAIN kv # {}) =>
              /\ Elements(req'[r].configs) = Stored(kv)
              /\ \A c \in Elements(req'[r].configs) :
                    c.id # "default" /\ c # FallbackTeam(env)]_vars

\* an invite has resolved against a non-empty store while both environment
\* values were set
C1_Witness ==
    \E r \in Requests :
        /\ req[r].kind = "invite"
        /\ req[r].pc = "resolved"
        /\ EnvPresent
        /\ req[r].teams # <<>>
        /\ req[r].configs = req[r].teams

\* C2 (single-team convenience): an invite with a non-empty emails list that
\* resolved to exactly one configuration dispatches with that configuration,
\* whether teamId is absent, its id, or anything else.
C2_SingleTeamConvenience ==
    \A r \in Requests :
        (Resolved(r) /\ Len(req[r].configs) = 1) =>
            /\ req[r].pc = "fetch"
            /\ req[r].config = req[r].configs[1]
            /\ req[r].calls = <<CallWith(r, req[r].configs[1])>>

\* an invite naming a team that is not the only configuration has called
\* out with the only configuration
C2_Witness ==
    \E r \in Requests :
        /\ Resolved(r)
        /\ Len(req[r].configs) = 1
        /\ req[r].body.teamId \notin {Absent, req[r].configs[1].id}
        /\ req[r].calls = <<CallWith(r, req[r].configs[1])>>

\* emails is absent, not a list, or an empty list
NoEmails(emails) == emails.type # "array" \/ emails.items = <<>>

\* C3 (validation before dispatch): an invite whose emails field is absent,
\* not a list or an empty list is answered 400 at once, with no store access
\* and no outbound call, in every state of the store and the environment.
C3_ValidationBeforeDispatch ==
    \A r \in Requests :
        (req[r].kind = "invite" /\ NoEmails(req[r].body.emails)) =>
            /\ req[r].pc = "done"
            /\ req[r].response.status = 400
            /\ req[r].responses = 1
            /\ req[r].calls = <<>>

\* an invite with an empty emails list was answered 400 although no
\* configuration is available
C3_Witness ==
    \E r \in Requests :
        /\ req[r].kind = "invite"
        /\ req[r].body.emails = EmailsEmpty
        /\ req[r].response.status = 400
        /\ DOMAIN kv = {}
        /\ ~EnvPresent

\* C4 (invalid selection fails fast): an invite with a non-empty emails
\* list that resolved to two or more configurations, none of which has the
\* given teamId (or teamId is absent), is answered 400 "Invalid or missing
\* team selection" and makes no outbound call.
C4_InvalidSelection ==
    \A r \in Requests :
        (/\ Resolved(r)
         /\ Len(req[r].configs) >= 2
         /\ \A c \in Elements(req[r].configs) : c.id # req[r].body.teamId) =>
            /\ req[r].pc = "done"
            /\ req[r].response =
                 [status |-> 400,
                  body |-> [error |-> "Invalid or missing team selection"]]
            /\ req[r].responses = 1
            /\ req[r].calls = <<>>

\* an invite naming a team that is none of the two configurations was
\* answered 400
C4_Witness ==
    \E r \in Requests :
        /\ Resolved(r)
        /\ Len(req[r].configs) >= 2
        /\ req[r].body.teamId # Absent
        /\ \A c \in Elements(req[r].configs) : c.id # req[r].body.teamId
        /\ req[r].response.status = 400

\* the answer of an invite that found no configuration
NoConfigAnswer ==
    [status |-> 500, body |-> [error |-> "No team configuration available"]]

\* C5 (no configuration available): an invite with a non-empty emails list
\* that read an empty store while the two environment values were not both
\* present is answered 500 "No team configuration available" and makes no
\* outbound call; and that answer is given only to an invite that read an
\* empty store (with the environment values not both present).
C5_NoConfigAvailable ==
    \A r \in Requests :
        /\ (Resolved(r) /\ req[r].teams = <<>> /\ ~EnvPresent) =>
              /\ req[r].pc = "done"
              /\ req[r].response = NoConfigAnswer
              /\ req[r].responses = 1
              /\ req[r].calls = <<>>
        /\ (req[r].kind = "invite" /\ req[r].response = NoConfigAnswer) =>
              /\ Resolved(r)
              /\ req[r].teams = <<>>
              /\ ~EnvPresent
              /\ req[r].calls = <<>>

\* an invite was answered 500 "No team configuration available" with only
\* one of the two environment values present
C5_Witness ==
    \E r \in Requests :
        /\ InviteWithEmails(r)
        /\ req[r].response = NoConfigAnswer
        /\ env.CHATGPT_TOKEN # Absent

\* C6 (explicit selection): an invite with a non-empty emails list whose
\* teamId is the id of a record of the resolved configuration set calls out
\* once, with the token and accountId of exactly that record, and its answer
\* names that record in its team field, however many teams are stored.
C6_ExplicitSelection ==
    \A r \in Requests :
        /\ Resolved(r) =>
              \A c \in Elements(req[r].configs) :
                  c.id = req[r].body.teamId =>
                      /\ req[r].pc = "fetch"
                      /\ req[r].config = c
                      /\ req[r].calls = <<CallWith(r, c)>>
        /\ (Settled(r) /\ req[r].config.id = req[r].body.teamId) =>
              /\ req[r].calls = <<CallWith(r, req[r].config)>>
              /\ req[r].response.body.team = req[r].config.name

\* with two teams of different credentials stored, an invite that named the
\* one that is listed second was answered in that team's name
C6_Witness ==
    \E r \in Requests :
        /\ Settled(r)
        /\ req[r].config.id = req[r].body.teamId
        /\ Cardinality(DOMAIN kv) = 2
        /\ loadTeams(kv)[2] = req[r].config
        /\ \E other \in Stored(kv) :
              /\ other.token # req[r].config.token
              /\ other.accountId # req[r].config.accountId
              /\ other.name # req[r].config.name
        /\ req[r].response.body.team = req[r].config.name

\* the fetch of r came back with a status and a readable body
Answered(r) ==
    /\ Settled(r)
    /\ ~req[r].outcome.fetchThrows
    /\ ~req[r].outcome.readThrows

\* C7 (upstream rejection is a value): when the outbound call completes with
\* a non-success status s and body b, the invite is answered with status s
\* and success=false, team = the selected record's name and details =
\* {success:false, statusCode:s, error:b}; when the upstream acknowledges
\* success, it is answered 200 with success=true.
C7_UpstreamRejection ==
    \A r \in Requests :
        Answered(r) =>
            LET o == req[r].outcome
            IN IF o.status \in 200..299
               THEN /\ req[r].response.status = 200
                    /\ req[r].response.body.success = TRUE
                    /\ req[r].response.body.team = req[r].config.name
                    /\ req[r].response.body.details =
                         [success |-> TRUE, data |-> o.payload]
               ELSE req[r].response =
                      [status |-> o.status,
                       body |-> [success |-> FALSE,
                                 team |-> req[r].config.name,
                                 details |-> [success |-> FALSE,
                                              statusCode |-> o.status,
                                              error |-> o.payload]]]

\* the upstream answered 403 "forbidden" and the invite was answered 403
C7_Witness ==
    \E r \in Requests :
        /\ Answered(r)
        /\ req[r].outcome.status = 403
        /\ req[r].outcome.payload = "forbidden"
        /\ req[r].response.status = 403
        /\ req[r].response.body.details.error = "forbidden"

\* the fetch of r, or the reading of its body, raised
Raised(r) ==
    /\ Settled(r)
    /\ req[r].outcome.fetchThrows \/ req[r].outcome.readThrows

\* C8 (transport failure is caught at the boundary): when the fetch or the
\* reading of its body raises, the invite is answered 500 with {success:false,
\* team, error: the exception's message}; an invite that has dispatched has
\* not answered before its call settles and has answered exactly once when
\* it is over, with one of: success, upstream rejection, this 500.
C8_TransportFailure ==
    \A r \in Requests :
        /\ Raised(r) =>
              req[r].response =
                 [status |-> 500,
                  body |-> [success |-> FALSE, team |-> req[r].config.name,
                            error |-> req[r].outcome.message]]
        /\ (req[r].kind = "invite" /\ req[r].pc = "fetch") =>
              /\ req[r].responses = 0
              /\ Len(req[r].calls) = 1
        /\ Settled(r) =>
              /\ req[r].responses = 1
              /\ Len(req[r].calls) = 1
              /\ Answered(r) \/ Raised(r)
              /\ Raised(r) <=> "error" \in DOMAIN req[r].response.body
              /\ Answered(r) <=> "details" \in DOMAIN req[r].response.body

\* the body of a non-success upstream answer could not be read and the
\* invite was answered 500 with the message of that error
C8_Witness ==
    \E r \in Requests :
        /\ Raised(r)
        /\ req[r].outcome.readThrows
        /\ req[r].outcome.status = 403
        /\ req[r].response.status = 500
        /\ req[r].response.body.error = req[r].outcome.message

\* r takes the step in which saveTeam assigns an id and writes the record
SavesNow(r) ==
    /\ req[r].kind = "addTeam"
    /\ req[r].pc = "set"
    /\ req'[r].pc = "done"

\* C9 (id uniqueness): under every interleaving of add-team and delete-team
\* requests, the id saveTeam assigns to a record that comes without one is
\* none of the ids assigned before, and after every step no two stored
\* records have the same id.
C9_IdUniqueness ==
    [][/\ \A r \in Requests :
             SavesNow(r) =>
                 /\ req'[r].team.id \notin issued
                 /\ req'[r].team.id \in issued'
                 /\ req'[r].team.id \in DOMAIN kv'
                 /\ req'[r].response.body.team.id = req'[r].team.id
       /\ \A j, k \in DOMAIN kv' : kv'[j].id = kv'[k].id => j = k
       /\ \A k \in DOMAIN kv' : kv'[k].id \in issued']_vars

\* two ids have been assigned, the record of one of them has been deleted
\* again and the other is stored
C9_Witness ==
    /\ Cardinality(issued) = 2
    /\ Cardinality(DOMAIN kv) = 1
    /\ \E r \in Requests : req[r].kind = "deleteTeam" /\ req[r].pc = "done"
                           /\ req[r].body.id \in issued

\* an add-team body without its token or its accountId
MissingCredentials(body) ==
    \/ body.token \in {Absent, ""}
    \/ body.accountId \in {Absent, ""}

\* C10 (credentials always present): every stored record has a non-empty
\* token and a non-empty accountId in every reachable state, and a POST
\* /api/teams whose token or accountId is missing or empty is answered 400
\* in a step that leaves the store as it was.
C10_CredentialsPresent ==
    /\ [](\A k \in DOMAIN kv :
             kv[k].token \notin {Absent, ""} /\ kv[k].accountId \notin {Absent, ""})
    /\ [](\A r \in Requests :
             (req[r].kind = "addTeam" /\ MissingCredentials(req[r].body)) =>
                 /\ req[r].pc = "done"
                 /\ req[r].response.status = 400
                 /\ req[r].responses = 1)
    /\ [][\A r \in Requests :
             (/\ req[r].pc = "idle"
              /\ req'[r].kind = "addTeam"
              /\ MissingCredentials(req'[r].body)) => kv' = kv]_vars

\* with a team stored, a POST /api/teams that gave a token but an empty
\* accountId was answered 400
C10_Witness ==
    \E r \in Requests :
        /\ req[r].kind = "addTeam"
        /\ req[r].body.token = "t1"
        /\ req[r].body.accountId = ""
        /\ req[r].response.status = 400
        /\ DOMAIN kv # {}

\* r takes the step in which deleteTeam removes the entry and the route
\* answers
DeletesNow(r) ==
    /\ req[r].kind = "deleteTeam"
    /\ req[r].pc = "delete"
    /\ req'[r].pc = "done"

\* C11 (idempotent delete): in every state of the store, DELETE
\* /api/teams/x is answered {success: true} whether or not x is stored; after
\* it no listed record has id x and every other entry is as it was; and when
\* x is not stored (as after a first delete of x) the store is left exactly
\* as it was.
C11_IdempotentDelete ==
    [][\A r \in Requests :
          DeletesNow(r) =>
              LET x == req[r].body.id
              IN /\ req'[r].response = [status |-> 200,
                                        body |-> [success |-> TRUE]]
                 /\ req'[r].responses = 1
                 /\ x \notin DOMAIN kv'
                 /\ \A t \in Elements(loadTeams(kv')) : t.id # x
                 /\ DOMAIN kv' = DOMAIN kv \ {x}
                 /\ \A k \in DOMAIN kv' : kv'[k] = kv[k]
                 /\ x \notin DOMAIN kv => kv' = kv]_vars

\* two DELETE requests for the id of a team that had been added have both
\* been answered {success: true}, and another team is still stored
C11_Witness ==
    /\ \A r \in Requests :
          /\ req[r].kind = "deleteTeam"
          /\ req[r].pc = "done"
          /\ req[r].response.body = [success |-> TRUE]
    /\ \E x \in issued :
          /\ \A r \in Requests : req[r].body.id = x
          /\ x \notin DOMAIN kv
    /\ DOMAIN kv # {}

\* the collation of the names of the model, the empty string first
Collation == <<"", "Alpha", "Beta", "Default Env/Global", "Team">>

\* where the name of a record stands in the collation, a missing name
\* standing for the empty string
NamePlace(t) ==
    LET n == IF t.name = Absent THEN "" ELSE t.name
    IN CHOOSE i \in 1..Len(Collation) : Collation[i] = n

\* C12 (sorted listing): in every state of the store, loadTeams returns
\* exactly the stored records, each once, in non-decreasing order of name,
\* a record without a name or with the empty name counting as "" and so
\* standing before every named record.
C12_SortedListing ==
    req[1].kind = "loadTeams" =>
        LET teams == req[1].teams
        IN /\ Len(teams) = Cardinality(DOMAIN kv)
           /\ Elements(teams) = Stored(kv)
           /\ \A i, j \in 1..Len(teams) :
                 i < j => NamePlace(teams[i]) <= NamePlace(teams[j])
           /\ \A i, j \in 1..Len(teams) :
                 (teams[i].name \in {Absent, ""}
                  /\ teams[j].name \notin {Absent, ""}) => i < j

\* loadTeams has listed a record without a name before a named record whose
\* key precedes its own
C12_Witness ==
    /\ req[1].kind = "loadTeams"
    /\ Len(req[1].teams) = 2
    /\ req[1].teams[1].name = Absent
    /\ req[1].teams[2].name = "Alpha"
    /\ KeyRank(req[1].teams[2].id) < KeyRank(req[1].teams[1].id)

\* the step is a call of saveTeam with a team that carries an id
SavesAt(x) ==
    /\ req'[1].kind = "saveTeam"
    /\ req'[1].body.id = x
    /\ x \notin {Absent, ""}

\* C16 (upsert with an id is a full overwrite): saveTeam of a record with a
\* non-empty id leaves the store holding exactly that record at that id,
\* under the id it came with and with none of the fields of the record it
\* replaces, leaves the number of records as it was when the id was stored
\* already, and leaves the records at all other ids as they were.
C16_FullOverwrite ==
    [][\A x \in Uuids :
          SavesAt(x) =>
              LET given == req'[1].body
              IN /\ req'[1].team.id = x
                 /\ x \in DOMAIN kv'
                 /\ kv'[x] = Team(given.token, given.accountId, given.name, x)
                 /\ DOMAIN kv' = DOMAIN kv \cup {x}
                 /\ x \in DOMAIN kv =>
                       Cardinality(DOMAIN kv') = Cardinality(DOMAIN kv)
                 /\ \A k \in DOMAIN kv' \ {x} : kv'[k] = kv[k]
                 /\ issued' = issued]_vars

\* saveTeam has been called with an id and a record without a name, that
\* record is now the one stored at the id, and another record is stored next
\* to it
C16_Witness ==
    /\ req[1].kind = "saveTeam"
    /\ req[1].body.id \in DOMAIN kv
    /\ kv[req[1].body.id] = Team("t2", "a2", Absent, req[1].body.id)
    /\ Cardinality(DOMAIN kv) = 2

\* r takes the step in which kv.list delivers and GET /api/teams answers
ListsNow(r) ==
    /\ req[r].kind = "getTeams"
    /\ req[r].pc = "list"
    /\ req'[r].pc = "done"

\* r is a POST /api/teams that has been answered 201
Added(r) ==
    /\ req[r].kind = "addTeam"
    /\ req[r].pc = "done"
    /\ req[r].response.status = 201

\* how often a record with the given id occurs in a listing
Occurrences(teams, id) ==
    Cardinality({i \in 1..Len(teams) : teams[i].id = id})

\* C13 (add then list round trip): a POST /api/teams with non-empty token and
\* accountId is answered 201 with a team that carries a newly generated id,
\* the given token and accountId and the given name, or "Team" when the name
\* is absent or empty; as long as that id has not been deleted, every GET
\* /api/teams lists exactly one entry with that id and those field values; a
\* listing holds as many entries as the store, so after an add into an empty
\* store that entry is the only one.
C13_AddThenList ==
    [][/\ \A r \in Requests :
             SavesNow(r) =>
                 LET given == req[r].body
                     team == req'[r].response.body.team
                 IN /\ ~MissingCredentials(given)
                    /\ req'[r].response.status = 201
                    /\ req'[r].response.body.success = TRUE
                    /\ team.id \in Uuids \ issued
                    /\ team.id \notin DOMAIN kv
                    /\ team.token = given.token
                    /\ team.accountId = given.accountId
                    /\ team.name = IF given.name \in {Absent, ""} THEN "Team"
                                   ELSE given.name
                    /\ kv'[team.id] = team
                    /\ kv = EmptyKv => Stored(kv') = {team}
       /\ \A r \in Requests :
             (Added(r) /\ req'[r] = req[r]) =>
                 LET team == req[r].response.body.team
                 IN (team.id \in DOMAIN kv /\ ~\E q \in Requests :
                                                  /\ DeletesNow(q)
                                                  /\ req[q].body.id = team.id) =>
                        /\ team.id \in DOMAIN kv'
                        /\ kv'[team.id] = team
       /\ \A q \in Requests :
             ListsNow(q) =>
                 LET listed == req'[q].response.body
                 IN /\ req'[q].response.status = 200
                    /\ Len(listed) = Cardinality(DOMAIN kv)
                    /\ \A k \in DOMAIN kv :
                          /\ Occurrences(listed, k) = 1
                          /\ kv[k] \in Elements(listed)
                    /\ \A r \in Requests :
                          (Added(r) /\ req[r].response.body.team.id \in DOMAIN kv) =>
                              /\ Occurrences(listed, req[r].response.body.team.id) = 1
                              /\ req[r].response.body.team \in Elements(listed)]_vars

\* a POST /api/teams without a name into the empty store was answered 201
\* with the name "Team", and a GET /api/teams after it listed that team and
\* nothing else
C13_Witness ==
    /\ Added(2)
    /\ req[2].body.name = Absent
    /\ req[2].response.body.team.name = "Team"
    /\ req[1].kind = "getTeams"
    /\ req[1].pc = "done"
    /\ req[1].response.body = <<req[2].response.body.team>>
    /\ Cardinality(issued) = 1

\* the answers an invite gives without having called out
Undispatched ==
    {[status |-> 400, body |-> [error |-> "Emails array is required"]],
     [status |-> 400, body |-> [error |-> "Invalid or missing team selection"]],
     NoConfigAnswer}

\* the call of r came back with a non-success status, or its fetch or the
\* reading of its body raised
Failed(r) ==
    /\ Settled(r)
    /\ Raised(r) \/ req[r].outcome.status \notin 200..299

\* C14 (single attempt): every POST /api/invite makes at most one outbound
\* call: none before its emails are validated and its team is resolved and
\* none when either fails, exactly one when both succeed; once the call is
\* out, the only step the request takes is the one that settles it and
\* answers, and after an upstream rejection or a transport failure the
\* request ends with that one call.
C14_SingleAttempt ==
    /\ [](\A r \in Requests :
             /\ Len(req[r].calls) <= 1
             /\ req[r].kind # "invite" => req[r].calls = <<>>
             /\ (req[r].kind = "invite" /\ req[r].pc \in {"openKv", "list", "resolved"})
                   => req[r].calls = <<>>
             /\ (req[r].kind = "invite" /\ req[r].pc \in {"fetch", "done"}) =>
                   /\ Len(req[r].calls) = 1 <=>
                         (~NoEmails(req[r].body.emails) /\ req[r].config # NoTeam)
                   /\ req[r].calls = <<>> <=>
                         (req[r].pc = "done" /\ req[r].response \in Undispatched)
             /\ Failed(r) =>
                   /\ req[r].calls = <<CallWith(r, req[r].config)>>
                   /\ req[r].pc = "done"
                   /\ req[r].response.body.success = FALSE)
    /\ [][\A r \in Requests :
             /\ (req[r].kind = "invite" /\ req[r].pc = "fetch"
                 /\ req'[r] # req[r]) =>
                   /\ req'[r].pc = "done"
                   /\ req'[r].calls = req[r].calls
             /\ (req[r].kind = "invite" /\ req[r].pc = "done"
                 /\ req'[r] # req[r]) => req'[r] = Idle]_vars

\* an invite whose call was rejected with 429 has answered 429 with the one
\* call it made
C14_Witness ==
    \E r \in Requests :
        /\ Failed(r)
        /\ req[r].outcome.status = 429
        /\ req[r].response.status = 429
        /\ Len(req[r].calls) = 1

\* C15 (the storage handle is a singleton initialised once): under every
\* interleaving of requests in flight, Deno.openKv() is called at most once
\* in the lifetime of the process, and every store operation is made on the
\* handle that first call returned.  getKv tests _kv before its await and
\* assigns it after, so this fails when a second request enters getKv while
\* the first open is pending.
C15_SingletonHandle ==
    /\ opens <= 1
    /\ _kv \in {0, 1}
    /\ \A r \in Requests : req[r].h \in {0, 1}

\* r takes the step in which kv.list delivers and GET /api/config answers
ReportsNow(r) ==
    /\ req[r].kind = "getConfig"
    /\ req[r].pc = "list"
    /\ req'[r].pc = "done"

\* the stored records no other stored record precedes by name
NameFirst(store) ==
    {t \in Stored(store) : \A u \in Stored(store) : NamePlace(t) <= NamePlace(u)}

\* C17 (GET /api/config reports the first resolved configuration): when the
\* store is non-empty the answer carries the token and accountId of a
\* name-first stored record with hasConfig = true; when the store is empty
\* and both environment values are present it carries those two values with
\* hasConfig = true; otherwise hasConfig = false and token and accountId are
\* undefined.  hasConfig is true exactly when the configuration set is
\* non-empty, which is when POST /api/invite does not answer "No team
\* configuration available" in that state.
C17_ConfigReport ==
    [][\A r \in Requests :
          ReportsNow(r) =>
              LET answer == req'[r].response.body
              IN /\ req'[r].response.status = 200
                 /\ DOMAIN answer = {"token", "accountId", "hasConfig"}
                 /\ IF DOMAIN kv # {}
                    THEN /\ \E t \in NameFirst(kv) :
                               /\ answer.token = t.token
                               /\ answer.accountId = t.accountId
                         /\ answer.hasConfig = TRUE
                    ELSE IF EnvPresent
                    THEN /\ answer.token = env.CHATGPT_TOKEN
                         /\ answer.accountId = env.CHATGPT_ACCOUNT_ID
                         /\ answer.hasConfig = TRUE
                    ELSE /\ answer.token = Absent
                         /\ answer.accountId = Absent
                         /\ answer.hasConfig = FALSE
                 /\ answer.hasConfig <=> (DOMAIN kv # {} \/ EnvPresent)
                 /\ answer.hasConfig <=>
                       Len(getAllConfigs(loadTeams(kv), env)) # 0
                 /\ kv' = kv]_vars

\* with both environment values present, GET /api/config has reported the
\* credentials of the stored team "Alpha", which it read before a team
\* named "Team" whose key precedes Alpha's
C17_Witness ==
    \E r \in Requests :
        /\ req[r].kind = "getConfig"
        /\ req[r].pc = "done"
        /\ EnvPresent
        /\ Len(req[r].teams) = 2
        /\ req[r].teams[1].name = "Alpha"
        /\ req[r].teams[2].name = "Team"
        /\ KeyRank(req[r].teams[2].id) < KeyRank(req[r].teams[1].id)
        /\ req[r].response.body =
              [token |-> "t1", accountId |-> "a1", hasConfig |-> TRUE]

\* r is one of the requests that only read the store
ReadsOnly(r) == req[r].kind \in {"invite", "getTeams", "getConfig", "health"}

\* C18 (frame of the HTTP surface): no step changes a record that stays
\* stored, and every stored record carries the id it is stored under; a
\* successful POST /api/teams adds exactly one record, under an id that was
\* never assigned before and is not stored, whatever id its body carries,
\* and leaves the other records as they were; DELETE /api/teams/:id removes at most the
\* entry at that id; every other step, and so every step of POST
\* /api/invite, GET /api/teams, GET /api/config and GET /health, leaves the
\* store as it was.
C18_SurfaceFrame ==
    [][/\ \A k \in DOMAIN kv \cap DOMAIN kv' : kv'[k] = kv[k]
       /\ \A k \in DOMAIN kv' : kv'[k].id = k
       /\ \A r \in Requests :
             SavesNow(r) =>
                 LET id == req'[r].response.body.team.id
                 IN /\ req'[r].response.status = 201
                    /\ id \notin DOMAIN kv \cup issued
                    /\ DOMAIN kv' = DOMAIN kv \cup {id}
                    /\ Cardinality(DOMAIN kv') = Cardinality(DOMAIN kv) + 1
       /\ \A r \in Requests :
             DeletesNow(r) => DOMAIN kv' = DOMAIN kv \ {req[r].body.id}
       /\ \A r \in Requests :
             (ReadsOnly(r) /\ req'[r] # req[r]) => kv' = kv
       /\ (\A r \in Requests : ~SavesNow(r) /\ ~DeletesNow(r)) => kv' = kv]_vars

\* a POST /api/teams whose body carried the id of a stored team, with
\* another token, was answered 201 under another id, and the team stored
\* under the id of the body is still the one another request is deleting
C18_Witness ==
    /\ Added(1)
    /\ req[1].body.id \in DOMAIN kv
    /\ req[1].response.body.team.id \in DOMAIN kv \ {req[1].body.id}
    /\ kv[req[1].body.id].token # req[1].body.token
    /\ req[2].kind = "deleteTeam"
    /\ req[2].pc = "delete"
    /\ req[2].body.id = req[1].body.id

\* r is an invite that holds the configuration set it read and has not yet
\* selected from it
Holding(r) ==
    /\ req[r].kind = "invite"
    /\ req[r].pc = "resolved"

\* the records of a configuration set the given teamId selects: the one
\* with that id, or else the only one
Selected(configs, teamId) ==
    IF \E c \in Elements(configs) : c.id = teamId
    THEN {c \in Elements(configs) : c.id = teamId}
    ELSE IF Len(configs) = 1 THEN {configs[1]} ELSE {}

\* C19 (resolution is a snapshot): a POST /api/invite reads the store in one
\* step, and the configuration set it then holds is the one of that moment;
\* until it selects, no step of any request changes the set it holds; its
\* outbound call carries the token and accountId of the record its teamId
\* selects from that set, whether or not the store still holds that record,
\* and it calls out whenever the set selects a record, whatever the store
\* holds by then.
C19_ResolutionSnapshot ==
    [][\A r \in Requests :
          /\ (req[r].kind = "invite" /\ req[r].pc = "list"
              /\ req'[r] # req[r]) =>
                /\ Holding(r)'
                /\ Len(req'[r].configs) = IF DOMAIN kv # {}
                                          THEN Cardinality(DOMAIN kv)
                                          ELSE IF EnvPresent THEN 1 ELSE 0
                /\ DOMAIN kv # {} => Elements(req'[r].configs) = Stored(kv)
          /\ (Holding(r) /\ Holding(r)') => req'[r].configs = req[r].configs
          /\ (req[r].kind = "invite" /\ req'[r].kind = "invite") =>
                (req'[r].teams # req[r].teams => req[r].pc \in {"list", "fetch"})
          /\ (Holding(r) /\ req'[r] # req[r]) =>
                LET chosen == Selected(req[r].configs, req[r].body.teamId)
                IN IF chosen = {}
                   THEN /\ req'[r].pc = "done"
                        /\ req'[r].calls = <<>>
                   ELSE /\ req'[r].pc = "fetch"
                        /\ req'[r].config \in chosen
                        /\ req'[r].calls = <<CallWith(r, req'[r].config)>>
          /\ (req[r].kind = "invite" /\ req[r].pc = "fetch") =>
                /\ req'[r].config = req[r].config
                /\ req'[r].calls = req[r].calls]_vars

\* an invite has called out with the credentials of the team its teamId
\* names, a team that a DELETE answered in the meantime has removed from
\* the store, which now holds another team only
C19_Witness ==
    /\ req[1].kind = "invite"
    /\ req[1].pc = "fetch"
    /\ req[1].config.id = req[1].body.teamId
    /\ req[1].config.id \in issued \ DOMAIN kv
    /\ req[1].calls = <<CallWith(1, req[1].config)>>
    /\ DOMAIN kv # {}
    /\ req[2].kind = "deleteTeam"
    /\ req[2].pc = "done"
    /\ req[2].body.id = req[1].config.id

====
